---- MODULE Spec2Model ----
(***************************************************************************)
(* Model of technical-analysis-pro.                                        *)
(*                                                                         *)
(*   SpecAnalyzer  one TechnicalAnalyzer object (technical_analysis.py)    *)
(*                 after fetch_data: its calculate_* methods and           *)
(*                 generate_trading_signals, called in any order.          *)
(*   SpecSeries    one TechnicalAnalyzer object with the bars themselves:  *)
(*                 Fibonacci levels, pivots and the forecast.              *)
(*   SpecLevels    the same object with its two level calculators alone.   *)
(*   SpecRisk      the same object with its risk metrics, on closes.       *)
(*   Spec          the Flask application (app.py): start_analysis, the     *)
(*                 background workers run_analysis_async, the session      *)
(*                 directory active_sessions and the socket events.        *)
(*   SpecRun       the same application with at most MaxRuns accepted      *)
(*                 requests.                                               *)
(*   SpecShared    the workers followed through their calls into genai     *)
(*                 and pyplot, whose state the whole process shares.       *)
(***************************************************************************)
EXTENDS Integers, Sequences, FiniteSets, TLC

VARIABLES
    bars,               \* len(self.data): number of bars fetched
    latest,             \* the indicator values of the last bar, where defined
    analysis_results,   \* TechnicalAnalyzer.analysis_results (a dict)
    data,               \* TechnicalAnalyzer.data: the bars, oldest first, where
                        \* the prices themselves are followed
    active_sessions,    \* app.active_sessions (a dict keyed by session id)
    pc,                 \* position of each worker thread in run_analysis_async:
                        \* "try" (at statement op), "except" (analysis_error
                        \* emitted), "done" (returned), "raised" (left by an
                        \* exception)
    exc,                \* the exception a worker has caught (str(e))
    events,             \* what socketio.emit has published, per session id
    reports,            \* the report files written under reports/ (a dict
                        \* from file name to what the file embeds)
    gemini,             \* what the narrative service answered to the
                        \* generate_content call of each worker
    ai_insights,        \* the local ai_insights of each worker
    request,            \* the last HTTP request start_analysis has handled
    response,           \* and the response it returned
    genai_api_key,      \* the key genai.configure has set, for the whole process
    figures,            \* the open figures of pyplot, the current one last
    lib                 \* each worker seen through its calls into genai and
                        \* pyplot: its position among them, its api_key, its
                        \* model, the key its service call carried and the
                        \* figure each of its chart files shows

analyzerVars == <<bars, latest, analysis_results, data>>
insightVars == <<gemini, ai_insights>>
httpVars == <<request, response>>
libVars == <<genai_api_key, figures, lib>>
appVars == <<active_sessions, pc, exc, events, reports, insightVars, httpVars, libVars>>
vars == <<bars, latest, analysis_results, data, active_sessions, pc, exc, events, reports,
          gemini, ai_insights, request, response, genai_api_key, figures, lib>>

----------------------------------------------------------------------------
(* Bounds of the model *)

MaxPrice == 2       \* prices and moving averages range over 1..MaxPrice
MaxOsc == 1         \* MACD and CMF range over -MaxOsc..MaxOsc
MaxSessions == 2    \* requests accepted by start_analysis
MaxRuns == 1        \* requests accepted where one run is followed alone
MaxBars == 3        \* length of the series whose prices are followed

(* Lookback windows: the latest value of an indicator is NaN on a shorter series *)
Sma50Window == 50
Sma200Window == 200
MacdWindow == 26
MacdSignalWindow == 34
RsiWindow == 14
CmfWindow == 20

BarCounts == {1, 14, 20, 26, 34, 50, 200}
RsiValues == {20, 30, 50, 70, 80}

----------------------------------------------------------------------------
(* Floating point values with NaN *)

NaN == [nan |-> TRUE, v |-> 0]
Num(x) == [nan |-> FALSE, v |-> x]

\* a > b on Python floats: False as soon as one side is NaN
Gt(a, b) == ~a.nan /\ ~b.nan /\ a.v > b.v
\* a < b on Python floats
Lt(a, b) == ~a.nan /\ ~b.nan /\ a.v < b.v

\* df[col].iloc[-1] of a rolling indicator with the given window
Windowed(raw, window) == IF bars >= window THEN Num(raw) ELSE NaN

Close == Num(latest.close)
SMA_50 == Windowed(latest.sma50, Sma50Window)
SMA_200 == Windowed(latest.sma200, Sma200Window)
MACD == Windowed(latest.macd, MacdWindow)
MACD_Signal == Windowed(latest.macd_signal, MacdSignalWindow)
RSI == Windowed(latest.rsi, RsiWindow)
CMF == Windowed(latest.cmf, CmfWindow)

\* dict.get(key, default)
Get(d, k, default) == IF k \in DOMAIN d THEN d[k] ELSE default
\* d[key] = value on a dict
Put(d, k, val) == (k :> val) @@ d
EmptyDict == [k \in {} |-> k]

----------------------------------------------------------------------------
(* TechnicalAnalyzer *)

TrendResults ==
    [golden_cross |-> Gt(SMA_50, SMA_200),
     price_above_sma200 |-> Gt(Close, SMA_200),
     macd_bullish |-> Gt(MACD, MACD_Signal)]

RsiSignal ==
    IF Gt(RSI, Num(70)) THEN "Overbought"
    ELSE IF Lt(RSI, Num(30)) THEN "Oversold"
    ELSE "Neutral"

\* VolumeTrend with a third label for a CMF that is not a number
VolumeTrendWithNeutral ==
    IF CMF.nan THEN "Neutral"
    ELSE IF Gt(CMF, Num(0)) THEN "Accumulation" ELSE "Distribution"

\* 'Accumulation' if df['CMF'].iloc[-1] > 0 else 'Distribution'
VolumeTrend == IF Gt(CMF, Num(0)) THEN "Accumulation" ELSE "Distribution"

calculate_trend_indicators ==
    /\ analysis_results' = Put(analysis_results, "trend", TrendResults)
    /\ UNCHANGED <<bars, latest, data, appVars>>

calculate_momentum_indicators ==
    /\ analysis_results' = Put(analysis_results, "momentum", [rsi_signal |-> RsiSignal])
    /\ UNCHANGED <<bars, latest, data, appVars>>

calculate_volume_indicators ==
    /\ analysis_results' = Put(analysis_results, "volume", [volume_trend |-> VolumeTrend])
    /\ UNCHANGED <<bars, latest, data, appVars>>

\* list.append when the condition holds
AppendIf(cond, list, item) == IF cond THEN Append(list, item) ELSE list

NoTrend == [golden_cross |-> FALSE, price_above_sma200 |-> FALSE, macd_bullish |-> FALSE]

\* BullishSignals with the volume rule testing the wrong label
BullishSignalsWrongVolume(results) ==
    LET trend == Get(results, "trend", NoTrend)
        rsi_signal == Get(results, "momentum", [rsi_signal |-> "None"]).rsi_signal
        volume_trend == Get(results, "volume", [volume_trend |-> "None"]).volume_trend
        s1 == AppendIf(trend.golden_cross, <<>>, "Golden Cross (SMA50 > SMA200)")
        s2 == AppendIf(trend.price_above_sma200, s1, "Price above SMA200")
        s3 == AppendIf(trend.macd_bullish, s2, "MACD Bullish Crossover")
        s4 == AppendIf(rsi_signal = "Oversold", s3, "RSI Oversold (potential reversal)")
    IN  AppendIf(volume_trend = "Distribution", s4, "Volume showing accumulation")

BullishSignals(results) ==
    LET trend == Get(results, "trend", NoTrend)
        rsi_signal == Get(results, "momentum", [rsi_signal |-> "None"]).rsi_signal
        volume_trend == Get(results, "volume", [volume_trend |-> "None"]).volume_trend
        s1 == AppendIf(trend.golden_cross, <<>>, "Golden Cross (SMA50 > SMA200)")
        s2 == AppendIf(trend.price_above_sma200, s1, "Price above SMA200")
        s3 == AppendIf(trend.macd_bullish, s2, "MACD Bullish Crossover")
        s4 == AppendIf(rsi_signal = "Oversold", s3, "RSI Oversold (potential reversal)")
    IN  AppendIf(volume_trend = "Accumulation", s4, "Volume showing accumulation")

\* BearishSignals with the volume rule evaluated before the RSI rule
BearishSignalsVolumeFirst(results) ==
    LET rsi_signal == Get(results, "momentum", [rsi_signal |-> "None"]).rsi_signal
        volume_trend == Get(results, "volume", [volume_trend |-> "None"]).volume_trend
        s1 == AppendIf(volume_trend = "Distribution", <<>>, "Volume showing distribution")
    IN  AppendIf(rsi_signal = "Overbought", s1, "RSI Overbought (potential reversal)")

BearishSignals(results) ==
    LET rsi_signal == Get(results, "momentum", [rsi_signal |-> "None"]).rsi_signal
        volume_trend == Get(results, "volume", [volume_trend |-> "None"]).volume_trend
        s1 == AppendIf(rsi_signal = "Overbought", <<>>, "RSI Overbought (potential reversal)")
    IN  AppendIf(volume_trend = "Distribution", s1, "Volume showing distribution")

\* A confidence is the exact quotient num / den
Ratio(n, d) == [num |-> n, den |-> d]
\* Confidence without the scaling to a percentage
ConfidenceUnscaled(count, total_signals) == Ratio(count, total_signals)

\* (count / total_signals) * 100
Confidence(count, total_signals) == Ratio(count * 100, total_signals)

\* Verdict with the first comparison written >=, so that a tie is a BUY
VerdictTieBuys(bullish_count, bearish_count) ==
    LET total_signals == bullish_count + bearish_count
    IN  IF total_signals > 0
        THEN IF bullish_count >= bearish_count
             THEN [overall_signal |-> "BUY",
                   confidence |-> Ratio(bullish_count * 100, total_signals)]
             ELSE [overall_signal |-> "SELL",
                   confidence |-> Ratio(bearish_count * 100, total_signals)]
        ELSE [overall_signal |-> "None", confidence |-> Ratio(0, 1)]

Verdict(bullish_count, bearish_count) ==
    LET total_signals == bullish_count + bearish_count
    IN  IF total_signals > 0
        THEN IF bullish_count > bearish_count
             THEN [overall_signal |-> "BUY",
                   confidence |-> Confidence(bullish_count, total_signals)]
             ELSE IF bearish_count > bullish_count
             THEN [overall_signal |-> "SELL",
                   confidence |-> Confidence(bearish_count, total_signals)]
             ELSE [overall_signal |-> "HOLD", confidence |-> Ratio(50, 1)]
        ELSE [overall_signal |-> "None", confidence |-> Ratio(0, 1)]

TradingSignals(results) ==
    LET bullish == BullishSignals(results)
        bearish == BearishSignals(results)
        verdict == Verdict(Len(bullish), Len(bearish))
    IN  [overall_signal |-> verdict.overall_signal,
         confidence |-> verdict.confidence,
         bullish_signals |-> bullish,
         bearish_signals |-> bearish]

generate_trading_signals ==
    /\ analysis_results' =
          Put(analysis_results, "trading_signals", TradingSignals(analysis_results))
    /\ UNCHANGED <<bars, latest, data, appVars>>

AnalyzerInit ==
    /\ bars \in BarCounts
    /\ data = <<>>
    /\ latest \in [close : 1..MaxPrice, sma50 : 1..MaxPrice, sma200 : 1..MaxPrice,
                   macd : 0..MaxOsc, macd_signal : 0..MaxOsc,
                   rsi : RsiValues, cmf : (-MaxOsc)..MaxOsc]
    /\ analysis_results = EmptyDict

\* no API key; the key of the request of session s is s
NoKey == 0
\* a figure nobody has drawn on; the figure of worker s is s
Blank == 0

\* before the first request
NoRequest == [method |-> "None", json |-> FALSE, data |-> EmptyDict]
NoResponse == [status |-> 0]

AppIdle ==
    /\ active_sessions = EmptyDict
    /\ pc = EmptyDict
    /\ exc = EmptyDict
    /\ events = EmptyDict
    /\ reports = EmptyDict
    /\ gemini = EmptyDict
    /\ ai_insights = EmptyDict
    /\ request = NoRequest
    /\ response = NoResponse
    /\ genai_api_key = NoKey
    /\ figures = <<>>
    /\ lib = EmptyDict

InitAnalyzer == AnalyzerInit /\ AppIdle

NextAnalyzer ==
    \/ calculate_trend_indicators
    \/ calculate_momentum_indicators
    \/ calculate_volume_indicators
    \/ generate_trading_signals

SpecAnalyzer == InitAnalyzer /\ [][NextAnalyzer]_vars

----------------------------------------------------------------------------
(* technical_analysis.py: the levels and the forecast, computed from the bars *)

\* A bar of the provider: its close lies between its low and its high
Bars ==
    {b \in [High : 1..MaxPrice, Low : 1..MaxPrice, Close : 1..MaxPrice] :
        b.Low <= b.Close /\ b.Close <= b.High}

RECURSIVE SumTo(_, _)
\* f[1] + ... + f[n]
SumTo(f, n) == IF n = 0 THEN 0 ELSE f[n] + SumTo(f, n - 1)

\* df['High'].max()
MaxHigh(df) == CHOOSE h \in {df[i].High : i \in 1..Len(df)} :
                  \A i \in 1..Len(df) : df[i].High <= h
\* df['Low'].min()
MinLow(df) == CHOOSE l \in {df[i].Low : i \in 1..Len(df)} :
                 \A i \in 1..Len(df) : l <= df[i].Low

\* The keys of the levels dict in insertion order, and the ratio of each in
\* thousandths
FibKeys == <<"0.0", "0.236", "0.382", "0.500", "0.618", "0.786", "1.0">>
FibRatios == <<0, 236, 382, 500, 618, 786, 1000>>

\* levels measured up from the low instead of down from the high
FibLevelsFromLow(high, low) ==
    LET diff == high - low
    IN  [i \in 1..Len(FibKeys) |->
            IF i = 1 THEN Ratio(high, 1)
            ELSE IF i = Len(FibKeys) THEN Ratio(low, 1)
            ELSE Ratio(1000 * low + FibRatios[i] * diff, 1000)]

\* the values of the levels dict, in the order of FibKeys
FibLevels(high, low) ==
    LET diff == high - low
    IN  [i \in 1..Len(FibKeys) |->
            IF i = 1 THEN Ratio(high, 1)
            ELSE IF i = Len(FibKeys) THEN Ratio(low, 1)
            ELSE Ratio(1000 * high - FibRatios[i] * diff, 1000)]

Abs(x) == IF x < 0 THEN -x ELSE x

\* abs(level - price) in thousandths
Distance(level, price) == Abs(level.num * (1000 \div level.den) - 1000 * price)

\* min(levels.items(), key=...)[0]: the first key at the smallest distance
ClosestLevel(levels, price) ==
    LET best == CHOOSE i \in 1..Len(levels) :
                    /\ \A j \in 1..Len(levels) :
                           Distance(levels[i], price) <= Distance(levels[j], price)
                    /\ \A j \in 1..(i - 1) :
                           Distance(levels[j], price) > Distance(levels[i], price)
    IN  FibKeys[best]

calculate_fibonacci_levels ==
    /\ data # <<>>
    /\ LET high == MaxHigh(data)
           low == MinLow(data)
           levels == FibLevels(high, low)
           current_price == data[Len(data)].Close
       IN  analysis_results' =
              Put(analysis_results, "fibonacci",
                  [levels |-> [i \in 1..Len(FibKeys) |-> <<FibKeys[i], levels[i]>>],
                   swing_high |-> high, swing_low |-> low,
                   current_price |-> current_price,
                   closest_level |-> ClosestLevel(levels, current_price)])
    /\ UNCHANGED <<bars, latest, data, appVars>>

\* pivots with the two first-order formulas exchanged
PivotLevelsExchanged(high, low, close) ==
    [pivot |-> Ratio(high + low + close, 3),
     resistance_1 |-> Ratio(2 * (high + low + close) - 3 * high, 3),
     resistance_2 |-> Ratio((high + low + close) + 3 * (high - low), 3),
     support_1 |-> Ratio(2 * (high + low + close) - 3 * low, 3),
     support_2 |-> Ratio((high + low + close) - 3 * (high - low), 3)]

\* pivot = (high + low + close) / 3 and the four levels around it, in thirds
PivotLevels(high, low, close) ==
    [pivot |-> Ratio(high + low + close, 3),
     resistance_1 |-> Ratio(2 * (high + low + close) - 3 * low, 3),
     resistance_2 |-> Ratio((high + low + close) + 3 * (high - low), 3),
     support_1 |-> Ratio(2 * (high + low + close) - 3 * high, 3),
     support_2 |-> Ratio((high + low + close) - 3 * (high - low), 3)]

\* the pivots taken from the extremes of the whole series
SupportResistanceOfSwings(df) ==
    PivotLevels(MaxHigh(df), MinLow(df), df[Len(df)].Close)

\* high, low and close are df[...].iloc[-1]: the latest bar
SupportResistance(df) ==
    LET last == df[Len(df)]
    IN  PivotLevels(last.High, last.Low, last.Close)

calculate_support_resistance ==
    /\ data # <<>>
    /\ analysis_results' =
          Put(analysis_results, "support_resistance", SupportResistance(data))
    /\ UNCHANGED <<bars, latest, data, appVars>>

\* The last ATR the indicator library gives for a series shorter than its
\* window: undefined, or a number
AtrValues == {NaN, Num(1)}

\* the part of calculate_volatility_indicators the forecast reads: the ATR
\* column of self.data, whose last value is results['atr']
calculate_volatility_indicators ==
    /\ data # <<>>
    /\ \E atr \in AtrValues :
          analysis_results' = Put(analysis_results, "volatility", [atr |-> atr])
    /\ UNCHANGED <<bars, latest, data, appVars>>

\* LinearRegression().fit(X, y) with X = 0, 1, ..., n - 1: the least squares
\* line; a single point leaves the slope at 0
LinearRegression(y) ==
    LET n == Len(y)
        sx == SumTo([i \in 1..n |-> i - 1], n)
        sy == SumTo(y, n)
        sxy == SumTo([i \in 1..n |-> (i - 1) * y[i]], n)
        sxx == SumTo([i \in 1..n |-> (i - 1) * (i - 1)], n)
        num == n * sxy - sx * sy
        den == n * sxx - sx * sx
    IN  IF den = 0
        THEN [coef_ |-> Ratio(0, 1), predict |-> [x \in n..(n + 4) |-> Ratio(sy, n)]]
        ELSE [coef_ |-> Ratio(num, den),
              predict |-> [x \in n..(n + 4) |->
                              Ratio(sy * den + num * (n * x - sx), n * den)]]

\* a + b and a - b on floats
FAdd(a, b) == IF a.nan \/ b.nan THEN NaN ELSE Num(a.v + b.v)
FSub(a, b) == IF a.nan \/ b.nan THEN NaN ELSE Num(a.v - b.v)

\* df['ATR'] exists once calculate_volatility_indicators has run; without it
\* the call raises KeyError and stores nothing
predict_price_movement ==
    /\ data # <<>>
    /\ "volatility" \in DOMAIN analysis_results
    /\ LET n == Len(data)
           model == LinearRegression([i \in 1..n |-> data[i].Close])
           atr == analysis_results.volatility.atr
           current_price == Num(data[n].Close)
       IN  analysis_results' =
              Put(analysis_results, "predictions",
                  [linear_regression |->
                      [next_5_days |-> [k \in 1..5 |-> model.predict[n + k - 1]],
                       trend |-> IF model.coef_.num > 0 THEN "Bullish" ELSE "Bearish",
                       slope |-> model.coef_],
                   volatility_range |->
                      [expected_high |-> FAdd(current_price, atr),
                       expected_low |-> FSub(current_price, atr)]])
    /\ UNCHANGED <<bars, latest, data, appVars>>

InitSeries ==
    /\ data \in UNION {[1..n -> Bars] : n \in 1..MaxBars}
    /\ bars = Len(data)
    /\ latest = EmptyDict
    /\ analysis_results = EmptyDict
    /\ AppIdle

NextSeries ==
    \/ calculate_volatility_indicators
    \/ calculate_fibonacci_levels
    \/ calculate_support_resistance
    \/ predict_price_movement

\* one TechnicalAnalyzer after fetch_data, its levels and its forecast
SpecSeries == InitSeries /\ [][NextSeries]_vars

NextLevels ==
    \/ calculate_fibonacci_levels
    \/ calculate_support_resistance

\* one TechnicalAnalyzer after fetch_data and its two level calculators
SpecLevels == InitSeries /\ [][NextLevels]_vars

\* df['Close']
Closes(df) == [i \in 1..Len(df) |-> df[i].Close]

RECURSIVE ProductTo(_, _)
\* f[1] * ... * f[n]
ProductTo(f, n) == IF n = 0 THEN 1 ELSE f[n] * ProductTo(f, n - 1)

\* df['Close'].pct_change().dropna(): close[i + 1] / close[i] - 1 for every
\* bar after the first, as numerators over one common denominator
PctChange(close) ==
    LET m == Len(close) - 1
        d == ProductTo(close, m)
    IN  [den |-> d,
         nums |-> [i \in 1..m |-> (close[i + 1] - close[i]) * (d \div close[i])]]

\* returns.mean(): 0/0, not a number, on an empty series
Mean(returns) ==
    LET m == Len(returns.nums)
    IN  Ratio(SumTo(returns.nums, m), returns.den * m)

\* the square of returns.std() (ddof = 1): 0/0, not a number, on fewer than
\* two returns
Variance(returns) ==
    LET m == Len(returns.nums)
        sum == SumTo(returns.nums, m)
        squares == SumTo([i \in 1..m |-> returns.nums[i] * returns.nums[i]], m)
    IN  Ratio(m * squares - sum * sum, returns.den * returns.den * m * (m - 1))

\* x is not a number
IsNaN(x) == x.den = 0

\* returns.std() != 0, which is True when the deviation is not a number
StdNotZero(variance) == IsNaN(variance) \/ variance.num # 0

\* the float mean / sqrt(variance) * sqrt(annual), kept as its operands
Quotient(mean, variance) ==
    [nan |-> IsNaN(mean) \/ IsNaN(variance), mean |-> mean, variance |-> variance]

\* the literal 0 of the else branch
Zero == [nan |-> FALSE, mean |-> Ratio(0, 1), variance |-> Ratio(1, 1)]

\* (returns.mean() / returns.std()) * np.sqrt(252) if returns.std() != 0 else 0
SharpeRatio(returns) ==
    IF StdNotZero(Variance(returns))
    THEN Quotient(Mean(returns), Variance(returns))
    ELSE Zero

\* df['Close'].cummax() at row i
CumMax(close, i) == CHOOSE c \in {close[j] : j \in 1..i} :
                       \A j \in 1..i : close[j] <= c

\* the fall measured from the first close instead of the running maximum
MaxDrawdownFromFirst(close) ==
    LET falls == [i \in 1..Len(close) |->
                     Ratio(100 * (close[i] - close[1]), close[1])]
        lowest == CHOOSE i \in 1..Len(close) :
                      \A j \in 1..Len(close) :
                          falls[i].num * falls[j].den <= falls[j].num * falls[i].den
    IN  falls[lowest]

\* ((df['Close'] / df['Close'].cummax()) - 1).min() * 100
MaxDrawdown(close) ==
    LET falls == [i \in 1..Len(close) |->
                     Ratio(100 * (close[i] - CumMax(close, i)), CumMax(close, i))]
        lowest == CHOOSE i \in 1..Len(close) :
                      \A j \in 1..Len(close) :
                          falls[i].num * falls[j].den <= falls[j].num * falls[i].den
    IN  falls[lowest]

calculate_risk_metrics ==
    /\ data # <<>>
    /\ LET close == Closes(data)
           returns == PctChange(close)
           m == Len(returns.nums)
       IN  analysis_results' =
              Put(analysis_results, "risk_metrics",
                  [total_return |->
                      Ratio(100 * (close[Len(close)] - close[1]), close[1]),
                   volatility |-> Variance(returns),
                   sharpe_ratio |-> SharpeRatio(returns),
                   max_drawdown |-> MaxDrawdown(close),
                   avg_daily_return |->
                      Ratio(100 * Mean(returns).num, Mean(returns).den),
                   positive_days |->
                      Ratio(100 * Cardinality({i \in 1..m : returns.nums[i] > 0}), m)])
    /\ UNCHANGED <<bars, latest, data, appVars>>

\* the closes the risk metrics are followed on range over 1..MaxClose
MaxClose == 4

\* the bars of a series of which only the closes are read
FlatBars == {[High |-> c, Low |-> c, Close |-> c] : c \in 1..MaxClose}

InitRisk ==
    /\ data \in UNION {[1..n -> FlatBars] : n \in 1..MaxBars}
    /\ bars = Len(data)
    /\ latest = EmptyDict
    /\ analysis_results = EmptyDict
    /\ AppIdle

NextRisk == calculate_risk_metrics

\* one TechnicalAnalyzer after fetch_data and its risk metrics
SpecRisk == InitRisk /\ [][NextRisk]_vars

----------------------------------------------------------------------------
(* app.py: run_analysis_async and start_analysis *)

\* Percents with two neighbouring values exchanged
PercentsExchanged == <<5, 15, 30, 40, 50, 60, 75, 70, 80, 85, 90, 92, 95, 98>>

\* The percent of each tracker.update inside the try block, before the final 100
Percents == <<5, 15, 30, 40, 50, 60, 70, 75, 80, 85, 90, 92, 95, 98>>

\* Stages with the forecast called where the volatility indicators are
StagesForecastFirst ==
    <<"TechnicalAnalyzer", "fetch_data", "calculate_trend_indicators",
      "calculate_momentum_indicators", "predict_price_movement",
      "calculate_volume_indicators", "calculate_fibonacci_levels",
      "calculate_support_resistance", "calculate_volatility_indicators",
      "calculate_risk_metrics", "generate_trading_signals",
      "create_visualizations", "get_gemini_insights", "generate_html_report">>

\* The call that follows each of those updates
Stages ==
    <<"TechnicalAnalyzer", "fetch_data", "calculate_trend_indicators",
      "calculate_momentum_indicators", "calculate_volatility_indicators",
      "calculate_volume_indicators", "calculate_fibonacci_levels",
      "calculate_support_resistance", "predict_price_movement",
      "calculate_risk_metrics", "generate_trading_signals",
      "create_visualizations", "get_gemini_insights", "generate_html_report">>

\* The statements of the try block, in program order
Program ==
    LET n == Len(Stages)
    IN  [i \in 1..(2 * n + 4) |->
            IF i <= 2 * n
            THEN IF i % 2 = 1
                 THEN [kind |-> "update", progress |-> Percents[(i + 1) \div 2]]
                 ELSE [kind |-> "call", name |-> Stages[i \div 2]]
            ELSE IF i = 2 * n + 1 THEN [kind |-> "write_report"]
            ELSE IF i = 2 * n + 2 THEN [kind |-> "store"]
            ELSE IF i = 2 * n + 3 THEN [kind |-> "update", progress |-> 100]
            ELSE [kind |-> "complete"]]

\* Calls that only read and build dicts of the analyzer and cannot raise
NeverRaises == {"generate_trading_signals"}

\* ValueError of fetch_data when the provider returns an empty frame
NoDataFound == "No data found for symbol"
\* any other exception of the provider call
ProviderFailed == "provider failed"

\* The chart functions create_all_charts calls one after the other, none of
\* them inside a try
Charts ==
    <<"create_main_chart", "create_advanced_indicators_chart",
      "create_fibonacci_chart", "create_heatmap_chart">>

Range(seq) == {seq[i] : i \in 1..Len(seq)}

\* str(e) of the exceptions a call can raise
Errors(name) ==
    IF name = "fetch_data" THEN {NoDataFound, ProviderFailed}
    ELSE IF name = "create_visualizations" THEN Range(Charts)
    ELSE IF name \in NeverRaises THEN {}
    ELSE {name}

\* self.model after the constructor: None without an API key
Models == {"None", "gemini-2.5-flash"}

\* response.text of a generate_content call that returned
Prose == "prose"
\* str(e) of a generate_content call that raised
ServiceError == "service error"
Responses == {Prose, ServiceError}

NoKeyText == "Gemini API key not provided. Skipping AI insights."
ErrorText(e) == "Error generating AI insights: " \o e

Return(value) == [raised |-> FALSE, value |-> value]
Raised(e) == [raised |-> TRUE, value |-> e]

\* get_gemini_insights without its except clause
get_gemini_insights_uncaught(model, answer) ==
    IF model = "None" THEN Return(NoKeyText)
    ELSE IF answer = ServiceError THEN Raised(ServiceError)
    ELSE Return(answer)

get_gemini_insights(model, answer) ==
    IF model = "None" THEN Return(NoKeyText)
    ELSE IF answer = ServiceError THEN Return(ErrorText(ServiceError))
    ELSE Return(answer)

\* the text as markup: headers, bold, italic and bullets are rewritten
convert_markdown_to_html(markdown_text) == "<html>" \o markdown_text

\* what generate_html_report embeds of its ai_insights argument: the section
\* is left out when the argument is None or empty
HtmlReport(insights) ==
    [ai_insights |-> IF insights \in {"None", ""} THEN "None"
                     ELSE convert_markdown_to_html(insights)]

EmitFailed == "emit failed"
WriteFailed == "write failed"

ReportFile(session_id) == <<"reports", session_id>>

InTry(s) == s \in DOMAIN pc /\ pc[s].at = "try"
CurOp(s) == Program[pc[s].op]

\* the next statement of the try block, or the end of the function
Advance(s) ==
    pc' = [pc EXCEPT ![s] = IF @.op = Len(Program)
                            THEN [at |-> "done", op |-> 0]
                            ELSE [at |-> "try", op |-> @.op + 1]]

ProgressUpdate(progress) == [event |-> "progress_update", progress |-> progress]
AnalysisComplete(html_file) == [event |-> "analysis_complete", html_file |-> html_file]
AnalysisError(error_msg) == [event |-> "analysis_error", error |-> error_msg]

\* socketio.emit returned
Emit(s, ev) == events' = [events EXCEPT ![s] = Append(@, ev)]

\* an exception inside the try block: control goes to the except clause, whose
\* first statement is socketio.emit('analysis_error', ...); when that emit
\* raises too, the exception leaves run_analysis_async and the thread ends
Raise(s, error_msg) ==
    /\ exc' = [exc EXCEPT ![s] = error_msg]
    /\ \/ /\ Emit(s, AnalysisError(error_msg))
          /\ pc' = [pc EXCEPT ![s] = [at |-> "except", op |-> 0]]
       \/ /\ pc' = [pc EXCEPT ![s] = [at |-> "raised", op |-> 0]]
          /\ UNCHANGED events

\* a worker that has not called genai or pyplot yet
LibStart ==
    [op |-> 1, api_key |-> NoKey, model |-> "None", model_key |-> NoKey,
     sent_key |-> NoKey, saved |-> EmptyDict]

\* The requests a client sends to /api/analyze: the preflight, a POST whose
\* body is not JSON, and POSTs with a JSON object
Bodies ==
    {EmptyDict, [start_date |-> "2024-01-01"], [symbol |-> ""], [symbol |-> "aapl"]}
Requests ==
    {[method |-> "OPTIONS", json |-> FALSE, data |-> EmptyDict],
     [method |-> "POST", json |-> FALSE, data |-> EmptyDict]}
    \cup {[method |-> "POST", json |-> TRUE, data |-> d] : d \in Bodies}

\* str.upper()
Upper(symbol) == IF symbol = "aapl" THEN "AAPL" ELSE symbol

\* `not data`: None and the empty dict are both falsy
NoData(req) == ~req.json \/ req.data = EmptyDict

\* return jsonify({'error': ...}), status
ErrorResponse(status, error) == [status |-> status, error |-> error]

\* a return before the session is created
Reply(resp) ==
    /\ response' = resp
    /\ UNCHANGED <<active_sessions, pc, exc, events, insightVars, lib>>

\* Accept without the session entry: the worker is started and the id is
\* returned, the directory is left as it was
AcceptUnregistered(symbol) ==
    /\ Cardinality(DOMAIN pc) < MaxSessions
    /\ LET session_id == Cardinality(DOMAIN pc) + 1
       IN  /\ UNCHANGED active_sessions
           /\ pc' = Put(pc, session_id, [at |-> "try", op |-> 1])
           /\ exc' = Put(exc, session_id, "None")
           /\ events' = Put(events, session_id, <<>>)
           /\ gemini' = Put(gemini, session_id, "None")
           /\ ai_insights' = Put(ai_insights, session_id, "None")
           /\ lib' = Put(lib, session_id, LibStart)
           /\ response' = [status |-> 202, session_id |-> session_id]

\* lines 211-225: the session entry, then the worker thread
Accept(symbol) ==
    /\ Cardinality(DOMAIN active_sessions) < MaxSessions
    /\ LET session_id == Cardinality(DOMAIN active_sessions) + 1
       IN  /\ active_sessions' =
                 Put(active_sessions, session_id, [status |-> "running", symbol |-> symbol])
           /\ pc' = Put(pc, session_id, [at |-> "try", op |-> 1])
           /\ exc' = Put(exc, session_id, "None")
           /\ events' = Put(events, session_id, <<>>)
           /\ gemini' = Put(gemini, session_id, "None")
           /\ ai_insights' = Put(ai_insights, session_id, "None")
           /\ lib' = Put(lib, session_id, LibStart)
           /\ response' = [status |-> 202, session_id |-> session_id]

\* start_analysis that never looks at the symbol
start_analysis_unvalidated ==
    /\ \E req \in Requests :
          /\ request' = req
          /\ Accept(Upper(Get(req.data, "symbol", "")))
    /\ UNCHANGED <<reports, genai_api_key, figures, analyzerVars>>

\* request.json of a body that is not JSON raises or returns None, depending
\* on the content type and the Flask version
start_analysis ==
    /\ \E req \in Requests :
          /\ request' = req
          /\ IF req.method = "OPTIONS" THEN Reply([status |-> 204])
             ELSE \/ /\ ~req.json
                     /\ Reply(ErrorResponse(500, "request.json failed"))
                  \/ /\ NoData(req)
                     /\ Reply(ErrorResponse(400, "No JSON data provided"))
                  \/ /\ ~NoData(req)
                     /\ LET symbol == Upper(Get(req.data, "symbol", ""))
                        IN  IF symbol = ""
                            THEN Reply(ErrorResponse(400, "Symbol is required"))
                            ELSE Accept(symbol)
    /\ UNCHANGED <<reports, genai_api_key, figures, analyzerVars>>

TrackerUpdate(s) ==
    /\ InTry(s) /\ CurOp(s).kind = "update"
    /\ \/ /\ Emit(s, ProgressUpdate(CurOp(s).progress))
          /\ Advance(s)
          /\ UNCHANGED exc
       \/ Raise(s, EmitFailed)
    /\ UNCHANGED <<active_sessions, reports, insightVars, httpVars, libVars, analyzerVars>>

StageCall(s) ==
    /\ InTry(s) /\ CurOp(s).kind = "call"
    /\ CurOp(s).name # "get_gemini_insights"
    /\ \/ /\ Advance(s)
          /\ UNCHANGED <<exc, events>>
       \/ \E error_msg \in Errors(CurOp(s).name) : Raise(s, error_msg)
    /\ UNCHANGED <<active_sessions, reports, insightVars, httpVars, libVars, analyzerVars>>

\* ai_insights = analyzer.get_gemini_insights(): self.model is what the
\* constructor made of the api_key of the request and is read only here; the
\* service is called only when there is a model
GetInsights(s) ==
    /\ InTry(s) /\ CurOp(s).kind = "call"
    /\ CurOp(s).name = "get_gemini_insights"
    /\ \E model \in Models :
       \E answer \in IF model = "None" THEN {"None"} ELSE Responses :
          LET result == get_gemini_insights(model, answer)
          IN  /\ gemini' = [gemini EXCEPT ![s] = answer]
              /\ IF result.raised
                 THEN /\ Raise(s, result.value)
                      /\ UNCHANGED ai_insights
                 ELSE /\ ai_insights' = [ai_insights EXCEPT ![s] = result.value]
                      /\ Advance(s)
                      /\ UNCHANGED <<exc, events>>
    /\ UNCHANGED <<active_sessions, reports, httpVars, libVars, analyzerVars>>

WriteReport(s) ==
    /\ InTry(s) /\ CurOp(s).kind = "write_report"
    /\ \/ /\ reports' = Put(reports, ReportFile(s), HtmlReport(ai_insights[s]))
          /\ Advance(s)
          /\ UNCHANGED <<exc, events>>
       \/ /\ Raise(s, WriteFailed)
          /\ UNCHANGED reports
    /\ UNCHANGED <<active_sessions, insightVars, httpVars, libVars, analyzerVars>>

StoreResults(s) ==
    /\ InTry(s) /\ CurOp(s).kind = "store"
    /\ active_sessions' = [active_sessions EXCEPT ![s] =
                              [status |-> "completed", html_file |-> ReportFile(s),
                               symbol |-> @.symbol]]
    /\ Advance(s)
    /\ UNCHANGED <<exc, events, reports, insightVars, httpVars, libVars, analyzerVars>>

TrackerComplete(s) ==
    /\ InTry(s) /\ CurOp(s).kind = "complete"
    /\ \/ /\ Emit(s, AnalysisComplete(ReportFile(s)))
          /\ Advance(s)
          /\ UNCHANGED exc
       \/ Raise(s, EmitFailed)
    /\ UNCHANGED <<active_sessions, reports, insightVars, httpVars, libVars, analyzerVars>>

\* an except clause that marks every session of the directory
HandlerStoreAll(s) ==
    /\ s \in DOMAIN pc /\ pc[s].at = "except"
    /\ active_sessions' = [t \in DOMAIN active_sessions |->
                              [status |-> "error", error |-> exc[s]]]
    /\ pc' = [pc EXCEPT ![s] = [at |-> "done", op |-> 0]]
    /\ UNCHANGED <<exc, events, reports, insightVars, httpVars, libVars, analyzerVars>>

\* except clause: active_sessions[session_id] = {'status': 'error', ...}
HandlerStore(s) ==
    /\ s \in DOMAIN pc /\ pc[s].at = "except"
    /\ active_sessions' = [active_sessions EXCEPT ![s] =
                              [status |-> "error", error |-> exc[s]]]
    /\ pc' = [pc EXCEPT ![s] = [at |-> "done", op |-> 0]]
    /\ UNCHANGED <<exc, events, reports, insightVars, httpVars, libVars, analyzerVars>>

\* GET /api/session/<session_id>: the entry of the directory, or 404
get_session_status(session_id) ==
    IF session_id \notin DOMAIN active_sessions
    THEN ErrorResponse(404, "Session not found")
    ELSE [status |-> 200, session |-> active_sessions[session_id]]

\* get_report that serves the file whenever it exists
get_report_unchecked(session_id) ==
    IF session_id \notin DOMAIN active_sessions
    THEN ErrorResponse(404, "Session not found")
    ELSE IF ReportFile(session_id) \notin DOMAIN reports
         THEN ErrorResponse(404, "Report file not found")
         ELSE [status |-> 200, html_content |-> reports[ReportFile(session_id)]]

\* GET /api/report/<session_id>: the content of the report file of a
\* completed session
get_report(session_id) ==
    IF session_id \notin DOMAIN active_sessions
    THEN ErrorResponse(404, "Session not found")
    ELSE LET session == active_sessions[session_id]
         IN  IF session.status # "completed"
             THEN ErrorResponse(400, "Analysis not completed yet")
             ELSE IF session.html_file \notin DOMAIN reports
                  THEN ErrorResponse(404, "Report file not found")
                  ELSE [status |-> 200, html_content |-> reports[session.html_file]]

run_analysis_async(s) ==
    \/ TrackerUpdate(s)
    \/ StageCall(s)
    \/ GetInsights(s)
    \/ WriteReport(s)
    \/ StoreResults(s)
    \/ TrackerComplete(s)
    \/ HandlerStore(s)

SessionIds == 1..MaxSessions

AnalyzerIdle ==
    /\ bars = 0
    /\ data = <<>>
    /\ latest = EmptyDict
    /\ analysis_results = EmptyDict

Init == AnalyzerIdle /\ AppIdle

Next ==
    \/ start_analysis
    \/ \E s \in SessionIds : run_analysis_async(s)

Spec == Init /\ [][Next]_vars

----------------------------------------------------------------------------
(* The state of genai and pyplot that the workers share *)

\* The statements of a run that read or write state of genai or of pyplot, in
\* program order: the constructor, the three pyplot calls of every chart
\* function, the service call
LibProgram ==
    <<[kind |-> "configure"], [kind |-> "GenerativeModel"]>>
    \o [i \in 1..(3 * Len(Charts)) |->
          [kind |-> <<"subplots", "savefig", "close">>[((i - 1) % 3) + 1],
           chart |-> Charts[((i - 1) \div 3) + 1]]]
    \o <<[kind |-> "generate_content"]>>

\* what a call into genai or pyplot leaves alone
libFrame ==
    <<active_sessions, pc, exc, events, reports, insightVars, httpVars, analyzerVars>>

AtLib(s, kind) ==
    /\ s \in DOMAIN lib
    /\ lib[s].op <= Len(LibProgram)
    /\ LibProgram[lib[s].op].kind = kind

\* self.gemini_api_key = gemini_api_key or os.getenv(...), with no key in the
\* environment; genai.configure(api_key=...) when there is one
Configure(s) ==
    /\ AtLib(s, "configure")
    /\ \E key \in {NoKey, s} :
          /\ lib' = [lib EXCEPT ![s].api_key = key, ![s].op = @ + 1]
          /\ genai_api_key' = IF key # NoKey THEN key ELSE genai_api_key
    /\ UNCHANGED <<figures, libFrame>>

\* self.model = genai.GenerativeModel('gemini-2.5-flash'), or None without a
\* key. The constructor is given no key: the model takes the configured one
\* now, or leaves it to be read when the service is called
CreateModel(s) ==
    /\ AtLib(s, "GenerativeModel")
    /\ IF lib[s].api_key = NoKey
       THEN lib' = [lib EXCEPT ![s].op = @ + 1]
       ELSE \E key \in {genai_api_key, NoKey} :
               lib' = [lib EXCEPT ![s].model = "gemini-2.5-flash",
                                  ![s].model_key = key, ![s].op = @ + 1]
    /\ UNCHANGED <<genai_api_key, figures, libFrame>>

\* fig, axes = plt.subplots(...): a new figure, which becomes the current one
plt_subplots(s) ==
    /\ AtLib(s, "subplots")
    /\ figures' = Append(figures, s)
    /\ lib' = [lib EXCEPT ![s].op = @ + 1]
    /\ UNCHANGED <<genai_api_key, libFrame>>

\* plt.tight_layout(); plt.savefig(file): the current figure goes to the file;
\* without an open figure pyplot makes an empty one
plt_savefig(s) ==
    /\ AtLib(s, "savefig")
    /\ figures' = IF figures = <<>> THEN <<Blank>> ELSE figures
    /\ lib' = [lib EXCEPT ![s].saved =
                              Put(@, LibProgram[lib[s].op].chart, figures'[Len(figures')]),
                          ![s].op = @ + 1]
    /\ UNCHANGED <<genai_api_key, libFrame>>

\* plt.close(): closes the current figure; the one before it becomes current
plt_close(s) ==
    /\ AtLib(s, "close")
    /\ figures' = IF figures = <<>> THEN figures
                  ELSE SubSeq(figures, 1, Len(figures) - 1)
    /\ lib' = [lib EXCEPT ![s].op = @ + 1]
    /\ UNCHANGED <<genai_api_key, libFrame>>

\* self.model.generate_content(prompt), when there is a model
GenerateContent(s) ==
    /\ AtLib(s, "generate_content")
    /\ lib' = [lib EXCEPT ![s].op = @ + 1,
                          ![s].sent_key =
                              IF lib[s].model = "None" THEN NoKey
                              ELSE IF lib[s].model_key # NoKey THEN lib[s].model_key
                              ELSE genai_api_key]
    /\ UNCHANGED <<genai_api_key, figures, libFrame>>

LibraryCall(s) ==
    \/ Configure(s)
    \/ CreateModel(s)
    \/ plt_subplots(s)
    \/ plt_savefig(s)
    \/ plt_close(s)
    \/ GenerateContent(s)

NextShared ==
    \/ start_analysis /\ response'.status = 202
    \/ \E s \in SessionIds : LibraryCall(s)

\* the application when every request is accepted, its workers followed through
\* their calls into the libraries
SpecShared == Init /\ [][NextShared]_vars

\* the same application when at most MaxRuns requests are accepted
NextRun ==
    \/ start_analysis /\ Cardinality(DOMAIN active_sessions') <= MaxRuns
    \/ \E s \in SessionIds : run_analysis_async(s)

SpecRun == Init /\ [][NextRun]_vars

\* every started thread keeps being scheduled until its function returns or raises
FairSpec == Spec /\ \A s \in SessionIds : WF_vars(run_analysis_async(s))

----------------------------------------------------------------------------
(* Properties of generate_trading_signals (checked under SpecAnalyzer) *)

HasSignals == "trading_signals" \in DOMAIN analysis_results
signals == analysis_results.trading_signals
bullish_count == Len(signals.bullish_signals)
bearish_count == Len(signals.bearish_signals)

RatEq(a, b) == a.num * b.den = b.num * a.den
RatLe(a, b) == a.num * b.den <= b.num * a.den
RatLt(a, b) == a.num * b.den < b.num * a.den

\* C1: whenever at least one signal fired, overall_signal is BUY iff the bullish
\* count is larger, SELL iff the bearish count is larger, HOLD iff they are equal.
C1_OverallFollowsCounts ==
    (HasSignals /\ bullish_count + bearish_count > 0) =>
        /\ signals.overall_signal = "BUY" <=> bullish_count > bearish_count
        /\ signals.overall_signal = "SELL" <=> bearish_count > bullish_count
        /\ signals.overall_signal = "HOLD" <=> bullish_count = bearish_count

C1_Witness ==
    /\ HasSignals
    /\ bullish_count = 2 /\ bearish_count = 2
    /\ signals.overall_signal = "HOLD"

\* C2: confidence is winning_count / total * 100 when one side leads, exactly 50
\* on a tie with total > 0, always within [0, 100], and above 50 for BUY and SELL.
C2_Confidence ==
    HasSignals =>
        LET total == bullish_count + bearish_count
            confidence == signals.confidence
        IN  /\ bullish_count > bearish_count =>
                  RatEq(confidence, Ratio(100 * bullish_count, total))
            /\ bearish_count > bullish_count =>
                  RatEq(confidence, Ratio(100 * bearish_count, total))
            /\ (bullish_count = bearish_count /\ total > 0) =>
                  RatEq(confidence, Ratio(50, 1))
            /\ RatLe(Ratio(0, 1), confidence) /\ RatLe(confidence, Ratio(100, 1))
            /\ signals.overall_signal \in {"BUY", "SELL"} =>
                  RatLt(Ratio(50, 1), confidence)

C2_Witness ==
    /\ HasSignals
    /\ bullish_count = 1 /\ bearish_count = 2
    /\ signals.overall_signal = "SELL"
    /\ RatEq(signals.confidence, Ratio(200, 3))

\* C3: when no rule fires (total = 0) the verdict is HOLD with confidence 0.
C3_NoSignalIsHold ==
    (HasSignals /\ bullish_count + bearish_count = 0) =>
        /\ signals.overall_signal = "HOLD"
        /\ RatEq(signals.confidence, Ratio(0, 1))

B2N(b) == IF b THEN 1 ELSE 0

\* the number of satisfied bullish rules of the rule table
SatisfiedBullish(results) ==
    LET trend == Get(results, "trend", NoTrend)
        momentum == Get(results, "momentum", [rsi_signal |-> "None"])
        volume == Get(results, "volume", [volume_trend |-> "None"])
    IN  B2N(trend.golden_cross) + B2N(trend.price_above_sma200)
        + B2N(trend.macd_bullish) + B2N(momentum.rsi_signal = "Oversold")
        + B2N(volume.volume_trend = "Accumulation")

\* the number of satisfied bearish rules of the rule table
SatisfiedBearish(results) ==
    LET momentum == Get(results, "momentum", [rsi_signal |-> "None"])
        volume == Get(results, "volume", [volume_trend |-> "None"])
    IN  B2N(momentum.rsi_signal = "Overbought")
        + B2N(volume.volume_trend = "Distribution")

AllTrendNeutralRsi(results, volume_trend) ==
    /\ {"trend", "momentum", "volume"} \subseteq DOMAIN results
    /\ results.trend = [golden_cross |-> TRUE, price_above_sma200 |-> TRUE,
                        macd_bullish |-> TRUE]
    /\ results.momentum.rsi_signal = "Neutral"
    /\ results.volume.volume_trend = volume_trend

\* C4: every call of generate_trading_signals leaves as many bullish (bearish)
\* signals as there are satisfied bullish (bearish) rules in its inputs; three
\* true trend flags, Neutral RSI and Accumulation give 4 / 0 / BUY / 100, and
\* with Distribution 3 / 1 / BUY / 75.
C4_CountsMatchRules ==
    [][generate_trading_signals =>
        LET s == analysis_results'.trading_signals
        IN  /\ Len(s.bullish_signals) = SatisfiedBullish(analysis_results)
            /\ Len(s.bearish_signals) = SatisfiedBearish(analysis_results)
            /\ AllTrendNeutralRsi(analysis_results, "Accumulation") =>
                  /\ Len(s.bullish_signals) = 4 /\ Len(s.bearish_signals) = 0
                  /\ s.overall_signal = "BUY"
                  /\ RatEq(s.confidence, Ratio(100, 1))
            /\ AllTrendNeutralRsi(analysis_results, "Distribution") =>
                  /\ Len(s.bullish_signals) = 3 /\ Len(s.bearish_signals) = 1
                  /\ s.overall_signal = "BUY"
                  /\ RatEq(s.confidence, Ratio(75, 1))]_vars

C4_Witness ==
    /\ HasSignals
    /\ AllTrendNeutralRsi(analysis_results, "Distribution")
    /\ bullish_count = 3 /\ bearish_count = 1
    /\ signals.overall_signal = "BUY"
    /\ RatEq(signals.confidence, Ratio(75, 1))

InList(item, list) == \E i \in 1..Len(list) : list[i] = item

\* C5: an indicator whose latest value is NaN contributes no vote: no signal
\* derived from an unavailable SMA_50/SMA_200, MACD, RSI or CMF is in the verdict.
C5_UnavailableDoesNotVote ==
    HasSignals =>
        /\ (SMA_50.nan \/ SMA_200.nan) =>
              ~InList("Golden Cross (SMA50 > SMA200)", signals.bullish_signals)
        /\ SMA_200.nan => ~InList("Price above SMA200", signals.bullish_signals)
        /\ (MACD.nan \/ MACD_Signal.nan) =>
              ~InList("MACD Bullish Crossover", signals.bullish_signals)
        /\ RSI.nan =>
              /\ ~InList("RSI Oversold (potential reversal)", signals.bullish_signals)
              /\ ~InList("RSI Overbought (potential reversal)", signals.bearish_signals)
        /\ CMF.nan =>
              /\ ~InList("Volume showing accumulation", signals.bullish_signals)
              /\ ~InList("Volume showing distribution", signals.bearish_signals)

\* the order in which the rules append to each list
BullishOrder ==
    <<"Golden Cross (SMA50 > SMA200)", "Price above SMA200", "MACD Bullish Crossover",
      "RSI Oversold (potential reversal)", "Volume showing accumulation">>
BearishOrder ==
    <<"RSI Overbought (potential reversal)", "Volume showing distribution">>

\* list picks items of order, each at most once, in the order of order
IsSubsequence(list, order) ==
    \E f \in [1..Len(list) -> 1..Len(order)] :
        /\ \A i \in 1..Len(list) : list[i] = order[f[i]]
        /\ \A i \in 1..(Len(list) - 1) : f[i] < f[i + 1]

DuplicateFree(list) == \A i, j \in 1..Len(list) : list[i] = list[j] => i = j

\* C25: in every verdict the bullish list is a duplicate-free subsequence of
\* [Golden Cross, Price above SMA200, MACD Bullish, RSI Oversold, Volume
\* accumulation] and the bearish list one of [RSI Overbought, Volume
\* distribution]; the verdict never holds both RSI signals nor both volume
\* signals.
C25_ListsFollowRuleOrder ==
    HasSignals =>
        /\ IsSubsequence(signals.bullish_signals, BullishOrder)
        /\ DuplicateFree(signals.bullish_signals)
        /\ IsSubsequence(signals.bearish_signals, BearishOrder)
        /\ DuplicateFree(signals.bearish_signals)
        /\ ~(InList(BullishOrder[4], signals.bullish_signals)
               /\ InList(BearishOrder[1], signals.bearish_signals))
        /\ ~(InList(BullishOrder[5], signals.bullish_signals)
               /\ InList(BearishOrder[2], signals.bearish_signals))

C25_Witness ==
    /\ HasSignals
    /\ signals.bullish_signals = <<BullishOrder[1], BullishOrder[3]>>
    /\ signals.bearish_signals = BearishOrder

\* the step stores a verdict that differs from the one stored before
GeneratesSignals ==
    /\ "trading_signals" \in DOMAIN analysis_results'
    /\ HasSignals => analysis_results'.trading_signals # signals

\* C29: when calculate_volume_indicators has run before
\* generate_trading_signals at least one signal fires, the volume signal on
\* one side or the other, so that overall_signal is never null and confidence
\* never 0; and in every verdict bearish_count <= 2 and bullish_count +
\* bearish_count <= 5.
C29_VolumeAlwaysVotes ==
    /\ [][("volume" \in DOMAIN analysis_results /\ GeneratesSignals) =>
             LET verdict == analysis_results'.trading_signals
             IN  /\ Len(verdict.bullish_signals) + Len(verdict.bearish_signals) >= 1
                 /\ \/ InList(BullishOrder[5], verdict.bullish_signals)
                    \/ InList(BearishOrder[2], verdict.bearish_signals)
                 /\ verdict.overall_signal \in {"BUY", "SELL", "HOLD"}
                 /\ RatLt(Ratio(0, 1), verdict.confidence)]_vars
    /\ [](HasSignals =>
             /\ bearish_count <= 2
             /\ bullish_count + bearish_count <= 5)

C29_Witness ==
    /\ HasSignals
    /\ "volume" \in DOMAIN analysis_results
    /\ CMF.nan
    /\ signals.bullish_signals = <<>>
    /\ signals.bearish_signals = <<BearishOrder[2]>>
    /\ signals.overall_signal = "SELL"
    /\ RatEq(signals.confidence, Ratio(100, 1))

----------------------------------------------------------------------------
(* Properties of the levels and the forecast (checked under SpecSeries) *)

\* the value stored under a key of the levels dict
Level(key) ==
    LET items == analysis_results.fibonacci.levels
    IN  items[CHOOSE i \in 1..Len(items) : items[i][1] = key][2]

\* C18: on a series whose highest high lies above its lowest low the Fibonacci
\* levels are ordered level[1.0] <= level[0.786] <= level[0.618] <= level[0.500]
\* <= level[0.382] <= level[0.236] <= level[0.0], level[0.0] is the highest High
\* of the series and level[1.0] its lowest Low.
C18_FibonacciOrdered ==
    ("fibonacci" \in DOMAIN analysis_results /\ MaxHigh(data) > MinLow(data)) =>
        /\ \A i \in 1..(Len(FibKeys) - 1) :
              RatLe(Level(FibKeys[i + 1]), Level(FibKeys[i]))
        /\ RatEq(Level("0.0"), Ratio(MaxHigh(data), 1))
        /\ RatEq(Level("1.0"), Ratio(MinLow(data), 1))
        /\ \A i \in 1..Len(data) :
              /\ RatLe(Ratio(data[i].High, 1), Level("0.0"))
              /\ RatLe(Level("1.0"), Ratio(data[i].Low, 1))

C18_Witness ==
    /\ "fibonacci" \in DOMAIN analysis_results
    /\ Len(data) = 3
    /\ data[1].High = 2 /\ data[2].Low = 1 /\ data[3] = [High |-> 1, Low |-> 1, Close |-> 1]
    /\ RatEq(Level("0.618"), Ratio(1382, 1000))
    /\ analysis_results.fibonacci.closest_level = "1.0"

C20_ZeroSlopeBullish ==
    ("predictions" \in DOMAIN analysis_results /\ Len(data) >= 2) =>
        LET fit == analysis_results.predictions.linear_regression
        IN  /\ RatLe(Ratio(0, 1), fit.slope) => fit.trend = "Bullish"
            /\ fit.trend = "Bearish" => RatLt(fit.slope, Ratio(0, 1))

\* C21: on a series of exactly one bar predict_price_movement does not raise
\* and the forecast it stores is marked unavailable: its slope and its five
\* predicted values are undefined.
C21_OneBarForecastUnavailable ==
    /\ (Len(data) = 1 /\ "volatility" \in DOMAIN analysis_results) =>
           ENABLED predict_price_movement
    /\ ("predictions" \in DOMAIN analysis_results /\ Len(data) = 1) =>
           LET fit == analysis_results.predictions.linear_regression
           IN  /\ IsNaN(fit.slope)
               /\ \A k \in 1..5 : IsNaN(fit.next_5_days[k])

\* what a series may hold before its latest bar
EarlierBars == UNION {[1..n -> Bars] : n \in 0..(MaxBars - 1)}

\* the series that ends with the same bar as df after other earlier bars
WithLatestBarOf(df, earlier) == Append(earlier, df[Len(df)])

\* C26: the pivots depend on the latest bar only: every series that ends with
\* the same bar (high, low, close), whatever its earlier bars, gives the same
\* pivot, resistance_1, resistance_2, support_1 and support_2.
C26_PivotsOfLatestBarOnly ==
    "support_resistance" \in DOMAIN analysis_results =>
        \A earlier \in EarlierBars :
            SupportResistance(WithLatestBarOf(data, earlier))
                = analysis_results.support_resistance

\* two series with the same latest bar, the same pivots and different
\* Fibonacci levels
C26_Witness ==
    /\ "support_resistance" \in DOMAIN analysis_results
    /\ "fibonacci" \in DOMAIN analysis_results
    /\ Len(data) = MaxBars
    /\ \E earlier \in EarlierBars :
          LET other == WithLatestBarOf(data, earlier)
          IN  /\ other # data
              /\ SupportResistance(other) = analysis_results.support_resistance
              /\ \E i \in 1..Len(FibKeys) :
                    ~RatEq(FibLevels(MaxHigh(other), MinLow(other))[i], Level(FibKeys[i]))

----------------------------------------------------------------------------
(* Properties of the risk metrics (checked under SpecRisk) *)

\* the returns of the series are all the same number
AllReturnsIdentical ==
    LET nums == PctChange(Closes(data)).nums
    IN  \A i, j \in 1..Len(nums) : nums[i] = nums[j]

\* C22: whenever the return series is not empty and its returns are all
\* identical, a single return included, sharpe_ratio is exactly 0.
C22_SharpeZeroOnIdenticalReturns ==
    ("risk_metrics" \in DOMAIN analysis_results
       /\ Len(data) >= 2 /\ AllReturnsIdentical) =>
        analysis_results.risk_metrics.sharpe_ratio = Zero

\* the closes never fall from one bar to the next
NonDecreasing(close) == \A i \in 1..(Len(close) - 1) : close[i] <= close[i + 1]

\* C23: on every series of positive closes max_drawdown is <= 0, and it is 0
\* if and only if the closes are monotonically non-decreasing.
C23_MaxDrawdownNotPositive ==
    "risk_metrics" \in DOMAIN analysis_results =>
        LET max_drawdown == analysis_results.risk_metrics.max_drawdown
        IN  /\ ~IsNaN(max_drawdown)
            /\ RatLe(max_drawdown, Ratio(0, 1))
            /\ RatEq(max_drawdown, Ratio(0, 1)) <=> NonDecreasing(Closes(data))

C23_Witness ==
    /\ "risk_metrics" \in DOMAIN analysis_results
    /\ Closes(data) = <<2, 4, 1>>
    /\ RatEq(analysis_results.risk_metrics.max_drawdown, Ratio(-75, 1))

----------------------------------------------------------------------------
(* Properties of the sessions and the events (checked under Spec and FairSpec) *)

TerminalStatus == {"completed", "error"}
Finished(s) == pc[s].at \in {"done", "raised"}

\* C6: once a session is completed or error, no step changes its record.
C6_TerminalSessionFrozen ==
    [][\A s \in DOMAIN active_sessions :
          active_sessions[s].status \in TerminalStatus =>
              active_sessions'[s] = active_sessions[s]]_vars

\* C7: a run in which something raised ends with the session in status error
\* holding the error message, and the exception does not leave the worker.
C7_FailureRecorded ==
    \A s \in DOMAIN pc :
        (Finished(s) /\ exc[s] # "None") =>
            /\ pc[s].at = "done"
            /\ active_sessions[s] = [status |-> "error", error |-> exc[s]]

\* C8: no session stays in status running forever: as long as a session is
\* running, its worker still has a step to take.
C8_RunningWorkerAlive ==
    \A s \in DOMAIN active_sessions :
        active_sessions[s].status = "running" => ENABLED run_analysis_async(s)

IsProgress(e) == e.event = "progress_update"
IsTerminal(e) == e.event \in {"analysis_complete", "analysis_error"}

\* C9: the percents of the progress_update events of a run lie in 0..100 and
\* never decrease, on every path.
C9_ProgressMonotone ==
    \A s \in DOMAIN events :
        LET updates == SelectSeq(events[s], IsProgress)
        IN  \A i \in 1..Len(updates) :
                /\ updates[i].progress \in 0..100
                /\ i > 1 => updates[i - 1].progress <= updates[i].progress

C9_Witness ==
    \E s \in DOMAIN events :
        /\ pc[s].at = "done"
        /\ active_sessions[s].status = "error"
        /\ Len(SelectSeq(events[s], IsProgress)) >= 8

\* C10: a run emits exactly one terminal event, never both kinds, and no
\* progress_update after it.
C10_OneTerminalEvent ==
    \A s \in DOMAIN events :
        LET terminals == SelectSeq(events[s], IsTerminal)
        IN  /\ Len(terminals) <= 1
            /\ Finished(s) => Len(terminals) = 1
            /\ \A i \in 1..Len(events[s]) :
                  IsTerminal(events[s][i]) => i = Len(events[s])

Percent(s, progress) ==
    \E i \in 1..Len(events[s]) : events[s][i] = ProgressUpdate(progress)

\* C11: a progress notification that cannot be published does not change the
\* outcome of the run: no run is ended by the emit of a tracker.update.
C11_UndeliveredProgressHarmless ==
    \A s \in DOMAIN pc : ~(exc[s] = EmitFailed /\ ~Percent(s, 100))

\* C12: a chart that cannot be rendered does not fail the run: no run is ended
\* by an exception of one of the chart functions.
C12_ChartFailureTolerated ==
    \A s \in DOMAIN pc : exc[s] \notin Range(Charts)

\* C13: a failing narrative service call never ends the run: get_gemini_insights
\* returns the explanatory error text, and without a model the placeholder; the
\* report of a completed run embeds that text.
C13_NarrativeFailureTolerated ==
    \A s \in DOMAIN pc :
        /\ exc[s] # ServiceError
        /\ gemini[s] = ServiceError => ai_insights[s] = ErrorText(ServiceError)
        /\ (gemini[s] = "None" /\ ai_insights[s] # "None") => ai_insights[s] = NoKeyText
        /\ active_sessions[s].status = "completed" =>
              /\ ai_insights[s] # "None"
              /\ reports[active_sessions[s].html_file] = HtmlReport(ai_insights[s])

C13_Witness ==
    \E s \in DOMAIN pc :
        /\ active_sessions[s].status = "completed"
        /\ gemini[s] = ServiceError
        /\ reports[ReportFile(s)].ai_insights =
              convert_markdown_to_html(ErrorText(ServiceError))

\* C14: when the provider returns no bar, fetch_data fails, no later stage
\* executes, and the run ends with the session in status error carrying the
\* 'No data found' message.
C14_NoDataEndsInError ==
    \A s \in DOMAIN pc :
        exc[s] = NoDataFound =>
            /\ \A i \in 3..Len(Percents) : ~Percent(s, Percents[i])
            /\ ai_insights[s] = "None"
            /\ ReportFile(s) \notin DOMAIN reports
            /\ Finished(s) =>
                  active_sessions[s] = [status |-> "error", error |-> NoDataFound]

\* what a request needs to be accepted: a JSON object with a non-empty symbol
ValidRequest(req) ==
    /\ req.method = "POST" /\ req.json
    /\ "symbol" \in DOMAIN req.data /\ req.data.symbol # ""

\* C15: a POST with no JSON body or with a missing or empty symbol is answered
\* with an error response, and handling it creates no session entry and starts
\* no worker.
C15_InvalidRequestRejected ==
    [][(httpVars' # httpVars /\ request'.method = "POST" /\ ~ValidRequest(request')) =>
          /\ response'.status \in {400, 500}
          /\ "error" \in DOMAIN response'
          /\ UNCHANGED <<active_sessions, pc>>]_vars

C15_Witness ==
    /\ request = [method |-> "POST", json |-> TRUE, data |-> [symbol |-> ""]]
    /\ response = ErrorResponse(400, "Symbol is required")
    /\ DOMAIN active_sessions = {1} /\ DOMAIN pc = {1}
    /\ active_sessions[1].status = "completed"

\* worker s raises, or runs its except clause
Fails(s) ==
    /\ pc'[s] # pc[s]
    /\ pc'[s].at \in {"except", "raised"} \/ pc[s].at = "except"

\* C17: a step in which one worker fails changes neither the entry nor the
\* worker of any other session, and a worker that has not finished can always
\* take its next step, whatever happened to the others.
C17_FailureIsLocal ==
    /\ [][\A s \in DOMAIN pc :
            Fails(s) =>
                \A t \in DOMAIN pc \ {s} :
                    /\ active_sessions'[t] = active_sessions[t]
                    /\ pc'[t] = pc[t] /\ exc'[t] = exc[t]
                    /\ events'[t] = events[t]]_vars
    /\ [](\A t \in DOMAIN pc : ~Finished(t) => ENABLED run_analysis_async(t))

C17_Witness ==
    \E s, t \in DOMAIN pc :
        /\ active_sessions[s] = [status |-> "error", error |-> NoDataFound]
        /\ pc[s].at = "done"
        /\ active_sessions[t].status = "completed"
        /\ pc[t].at = "done"

\* the step in which run s makes the i-th call of the try block
Calls(s, i) == InTry(s) /\ pc[s].op = 2 * i /\ pc'[s] # pc[s]

\* the call of the stage has returned in run s: the progress update that
\* follows it in the try block has been emitted
Returned(s, name) ==
    \E i \in 1..(Len(Stages) - 1) :
        Stages[i] = name /\ InList(ProgressUpdate(Percents[i + 1]), events[s])

\* C24: in every run the stages execute one at a time in a fixed order:
\* fetch_data before every calculation, the forecast only after the volatility
\* indicators, the signal aggregator only after the trend, momentum and volume
\* indicators, the report assembler last, after signals, charts and narrative;
\* when a stage is called every earlier stage has been started and has
\* returned, and no later one has been started.
C24_StagesInOrder ==
    [][\A s \in DOMAIN pc : \A i \in 1..Len(Stages) :
          Calls(s, i) =>
             /\ events[s] = [k \in 1..i |-> ProgressUpdate(Percents[k])]
             /\ \A j \in 1..(i - 1) : Returned(s, Stages[j])
             /\ \A j \in i..Len(Stages) : ~Returned(s, Stages[j])
             /\ Stages[i] \notin {"TechnicalAnalyzer", "fetch_data"} =>
                    Returned(s, "fetch_data")
             /\ Stages[i] = "predict_price_movement" =>
                    Returned(s, "calculate_volatility_indicators")
             /\ Stages[i] = "generate_trading_signals" =>
                    /\ Returned(s, "calculate_trend_indicators")
                    /\ Returned(s, "calculate_momentum_indicators")
                    /\ Returned(s, "calculate_volume_indicators")
             /\ Stages[i] = "generate_html_report" =>
                    /\ Returned(s, "generate_trading_signals")
                    /\ Returned(s, "create_visualizations")
                    /\ Returned(s, "get_gemini_insights")]_vars

C24_Witness ==
    \E s \in DOMAIN pc :
        /\ InTry(s) /\ CurOp(s).kind = "write_report"
        /\ Len(events[s]) = Len(Stages)
        /\ Returned(s, "get_gemini_insights")

\* C27: start_analysis has inserted the session with status running when the
\* worker starts and when the session id is returned; a terminal status is
\* never replaced by running, and a status query for an id that has been
\* returned never answers 'Session not found'.
C27_SessionInsertedBeforeWorker ==
    /\ [][/\ \A s \in DOMAIN pc' \ DOMAIN pc :
                /\ s \in DOMAIN active_sessions'
                /\ active_sessions'[s].status = "running"
                /\ response' = [status |-> 202, session_id |-> s]
           /\ \A t \in DOMAIN active_sessions \cap DOMAIN active_sessions' :
                active_sessions[t].status \in TerminalStatus =>
                    active_sessions'[t].status # "running"]_vars
    /\ [](/\ \A s \in DOMAIN pc : get_session_status(s).status = 200
          /\ response.status = 202 =>
                get_session_status(response.session_id).status = 200)

C27_Witness ==
    /\ response.status = 202
    /\ get_session_status(response.session_id).status = 200
    /\ get_session_status(response.session_id).session.status = "completed"
    /\ pc[response.session_id].at = "done"

\* the last event of a sequence of events
Last(seq) == seq[Len(seq)]

\* C28: at the moment a terminal event is emitted for a run the directory
\* already holds the matching terminal status of the run: completed, with the
\* report file written, for analysis_complete, and error for analysis_error,
\* so that a query made on receiving the event never finds status running.
C28_StatusBeforeTerminalEvent ==
    [][\A s \in DOMAIN events :
          (events'[s] # events[s] /\ IsTerminal(Last(events'[s]))) =>
             /\ Last(events'[s]).event = "analysis_complete" =>
                    /\ get_session_status(s)'.session.status = "completed"
                    /\ ReportFile(s) \in DOMAIN reports'
             /\ Last(events'[s]).event = "analysis_error" =>
                    get_session_status(s)'.session.status = "error"]_vars

\* C30: get_report serves report content only for a session whose status is
\* completed and whose report file exists; for an unknown id it answers
\* 'Session not found' and for a running or failed session 'Analysis not
\* completed yet', wherever the worker stands.
C30_ReportOnlyWhenCompleted ==
    \A session_id \in SessionIds :
        LET answer == get_report(session_id)
        IN  /\ session_id \notin DOMAIN active_sessions =>
                   answer = ErrorResponse(404, "Session not found")
            /\ (session_id \in DOMAIN active_sessions
                  /\ active_sessions[session_id].status \in {"running", "error"}) =>
                   answer = ErrorResponse(400, "Analysis not completed yet")
            /\ answer.status = 200 =>
                   /\ session_id \in DOMAIN active_sessions
                   /\ active_sessions[session_id].status = "completed"
                   /\ ReportFile(session_id) \in DOMAIN reports
                   /\ answer.html_content = reports[ReportFile(session_id)]

C30_Witness ==
    /\ \E session_id \in DOMAIN pc :
          /\ pc[session_id].at = "done"
          /\ get_report(session_id).status = 200
          /\ get_report(session_id).html_content = HtmlReport(ai_insights[session_id])
    /\ \E session_id \in SessionIds : get_report(session_id).status = 404

----------------------------------------------------------------------------
(* Properties of the state the workers share (checked under SpecShared) *)

\* C16: concurrent runs share nothing but the session directory: the key a
\* run's narrative call carries is the key of its own request, and each chart
\* file of a run shows the figure that run has drawn, under every interleaving.
C16_RunsIsolated ==
    \A s \in DOMAIN lib :
        /\ lib[s].sent_key \in {NoKey, lib[s].api_key}
        /\ \A chart \in DOMAIN lib[s].saved : lib[s].saved[chart] = s

====
